---- MODULE Spec2Model ----
(***************************************************************************)
(* go-print: discovery of SMB-shared printers on the local subnet and the  *)
(* selection of one of them as the default printer (src/main.go, and the   *)
(* bounded-range getNetworkRange of src/unnamed/part_001).                 *)
(*                                                                         *)
(* A Go string is modelled as a sequence of one-character strings, so      *)
(* that strings.Index, strings.TrimSpace, strings.ToLower and slicing are  *)
(* computed as the library computes them.  An IPv4 address is a tuple of   *)
(* four octets.                                                            *)
(***************************************************************************)
EXTENDS Integers, Sequences, FiniteSets, TLC

VARIABLES
    loopVarPerIteration, \* TRUE: the build gives `for printer := range` a fresh variable per iteration
    ips,                 \* main: the candidates returned by the Range Deriver
    network,             \* the environment: what each candidate answers
    mainpc,              \* main: position of the main goroutine
    next,                \* main: index of the next candidate of `for _, ip := range ips`
    wg,                  \* main: sync.WaitGroup counter
    task,                \* one probe goroutine per candidate
    printers,            \* main: buffer of the channel `printers`
    closes,              \* number of close(printers) executed
    panicked,            \* a send on the closed channel (or a second close) happened
    closerpc,            \* position of the goroutine `wg.Wait(); close(printers)`
    cells,               \* the instances of the loop variable `printer`
    targetPrinter,       \* main: 0 is nil, otherwise the index in cells it points into
    reported,            \* the "found printer" lines written by the consumer loop
    connectCalls,        \* arguments of the calls of connectPrinter
    addCmdRuns,          \* paths handed to the add-printer command
    setDefaultCalls,     \* arguments of the calls of setDefaultPrinter
    messages,            \* the result lines written by main after the loop
    probeCalls,          \* connectPrinter: the calls of isPrinterConnected and what they returned
    hostInterfaces,      \* the environment: what net.Interfaces and Addrs report
    ifpc,                \* getLocalInterfaces: position
    ifaceK,              \* getLocalInterfaces: index of `for _, iface := range interfaces`
    result,              \* getLocalInterfaces: the slice `result`
    ifErr,               \* getLocalInterfaces: the error returned
    selectedInterface,   \* main: the InterfaceInfo returned by selectInterface
    policy,              \* the Range Deriver of the build: getNetworkRange "full" (main.go) or
                         \* "bounded" (part_001), or scanNetwork "scan" (part_000)
    block,               \* the address block the text cidr was written from
    cidr,                \* getNetworkRange: the parameter cidr
    rpc,                 \* getNetworkRange: position
    ipnet,               \* getNetworkRange: the *net.IPNet returned by net.ParseCIDR
    loopIP,              \* getNetworkRange (full): the loop variable ip, advanced by incIP
    hostNum,             \* getNetworkRange (bounded): the loop variable i
    rangeIps,            \* getNetworkRange: the local slice ips
    elided,              \* getNetworkRange (full): TRUE when the run is followed from a later
                         \* iteration of the loop, rangeIps then holds the elements appended
                         \* from there on and not the ones before them
    rangeErr             \* getNetworkRange: the error returned

\* the state of getLocalInterfaces and selectInterface
ifaceVars == <<hostInterfaces, ifpc, ifaceK, result, ifErr, selectedInterface>>

\* the state of getNetworkRange
rangeVars == <<policy, block, cidr, rpc, ipnet, loopIP, hostNum, rangeIps, elided, rangeErr>>

\* the state of main before the launch loop
startupVars == <<ifaceVars, rangeVars>>

vars == <<loopVarPerIteration, ips, network, mainpc, next, wg, task, printers,
          closes, panicked, closerpc, cells, targetPrinter, reported,
          connectCalls, addCmdRuns, setDefaultCalls, messages, probeCalls,
          startupVars>>

-----------------------------------------------------------------------------
(* Bounds of the model *)

MaxHosts == 2

MaxLines == 2

MaxHostBits == 9

MaxAddrs == 3

-----------------------------------------------------------------------------
(* Package strings *)

\* F applied to the value of e, e evaluated once (TLC evaluates an operator
\* argument anew at each of its uses)
ApplyTo(e, F(_)) == CHOOSE r \in {F(v) : v \in {e}} : TRUE

UpperCase ==
    <<"A","B","C","D","E","F","G","H","I","J","K","L","M",
      "N","O","P","Q","R","S","T","U","V","W","X","Y","Z">>

LowerCase ==
    <<"a","b","c","d","e","f","g","h","i","j","k","l","m",
      "n","o","p","q","r","s","t","u","v","w","x","y","z">>

ToLowerChar(c) ==
    IF \E k \in DOMAIN UpperCase : UpperCase[k] = c
    THEN LowerCase[CHOOSE k \in DOMAIN UpperCase : UpperCase[k] = c]
    ELSE c

\* strings.ToLower
ToLower(s) == [k \in 1..Len(s) |-> ToLowerChar(s[k])]

\* sub occurs in s at the 0-based offset i
OccursAt(s, sub, i) ==
    /\ i >= 0
    /\ i + Len(sub) <= Len(s)
    /\ \A k \in 1..Len(sub) : s[i + k] = sub[k]

\* strings.Index: the 0-based offset of the first occurrence of sub in s, or -1
Index(s, sub) ==
    LET hits == {i \in 0..(Len(s) - Len(sub)) : OccursAt(s, sub, i)}
    IN  IF hits = {} THEN -1
        ELSE CHOOSE i \in hits : \A j \in hits : i <= j

\* strings.Contains
Contains(s, sub) == Index(s, sub) >= 0

IsSpace(c) == c \in {" ", "\t", "\n", "\r"}

\* s without its leading and its trailing white space
Trimmed(s) ==
    LET keep == {k \in 1..Len(s) : ~IsSpace(s[k])}
    IN  IF keep = {} THEN <<>>
        ELSE SubSeq(s, CHOOSE a \in keep : \A b \in keep : a <= b,
                       CHOOSE a \in keep : \A b \in keep : a >= b)

\* strings.TrimSpace
TrimSpace(s) == ApplyTo(s, Trimmed)

-----------------------------------------------------------------------------
(* getShares *)

Marker == <<"P","r","i","n","t">>

IpcToken == <<"i","p","c","$">>

\* the filter without the lower-casing of the name
KeepShareMut(shareName) ==
    shareName # <<>> /\ ~Contains(shareName, IpcToken)

\* the filter on a share name: `shareName != "" && !strings.Contains(strings.ToLower(shareName), "ipc$")`
KeepShare(shareName) ==
    shareName # <<>> /\ ~Contains(ToLower(shareName), IpcToken)

\* `if shareName != "" && !... { shares = append(shares, shareName) }`
ShareEntry(shareName) == IF KeepShare(shareName) THEN <<shareName>> ELSE <<>>

\* the body of the scanner loop: what one line of the listing adds to shares
ParseLine(line) ==
    IF Contains(line, Marker)
    THEN ApplyTo(Index(line, Marker),
             LAMBDA printIndex :
                 IF printIndex > 0
                 THEN ApplyTo(TrimSpace(SubSeq(line, 1, printIndex)), ShareEntry)
                 ELSE <<>>)
    ELSE <<>>

RECURSIVE ScanFrom(_, _)
\* the scanner loop from line k on: shares = append(shares, shareName) per line
ScanFrom(lines, k) ==
    IF k > Len(lines) THEN <<>>
    ELSE ParseLine(lines[k]) \o ScanFrom(lines, k + 1)

\* the scanner loop over the lines of the output
ScanShares(lines) == ScanFrom(lines, 1)

\* the results without the test of len(shares)
SharesResultMut(shares) == [shares |-> shares, err |-> "nil"]

\* the two results ([]string, error) of getShares
SharesResult(shares) ==
    IF Len(shares) = 0
    THEN [shares |-> <<>>, err |-> "NoSharesFound"]
    ELSE [shares |-> shares, err |-> "nil"]

\* getShares(ip), for the exit status cmdOk and the output lines of `net view \\ip`
getShares(cmdOk, lines) ==
    IF ~cmdOk
    THEN [shares |-> <<>>, err |-> "RemoteCommandFailed"]
    ELSE SharesResult(ScanShares(lines))

-----------------------------------------------------------------------------
(* Printer records *)

DigitChars == <<"0","1","2","3","4","5","6","7","8","9">>

RECURSIVE Itoa(_)
\* the decimal text of a natural number (the %d of net.IP.String)
Itoa(n) ==
    IF n < 10 THEN <<DigitChars[n + 1]>>
    ELSE Itoa(n \div 10) \o <<DigitChars[(n % 10) + 1]>>

\* net.IP.String of an IPv4 address
IPString(ip) ==
    Itoa(ip[1]) \o <<".">> \o Itoa(ip[2]) \o <<".">> \o Itoa(ip[3]) \o <<".">> \o Itoa(ip[4])

\* the path with the format "\\%s\%s": one backslash in front of the host
FullPathOfMut(ip, shareName) == <<"\\">> \o ip \o <<"\\">> \o shareName

\* fmt.Sprintf("\\\\%s\\%s", ip, shareName)
FullPathOf(ip, shareName) == <<"\\", "\\">> \o ip \o <<"\\">> \o shareName

\* the Printer literal a probe task sends
MkPrinter(ip, shareName) ==
    [IP |-> ip, Name |-> shareName, ShareName |-> shareName,
     FullPath |-> FullPathOf(ip, shareName)]

-----------------------------------------------------------------------------
(* The environment: candidates and what they answer *)

\* n consecutive candidate addresses, as the strings the Range Deriver returns
Candidates(n) == [i \in 1..n |-> IPString(<<192, 168, 0, 99 + i>>)]

Spaces(n) == [k \in 1..n |-> " "]

\* one row of the share table of a host: the share name in the leading
\* column, the type column, the remark column
Row(name, gap1, type, gap2, remark) ==
    [name |-> name, gap1 |-> gap1, type |-> type, gap2 |-> gap2, remark |-> remark]

\* the line `net view` writes for a row
Render(row) ==
    row.name \o Spaces(row.gap1) \o row.type
    \o (IF row.remark = <<>> THEN <<>> ELSE Spaces(row.gap2) \o row.remark)

LineHeader ==
    <<"S","h","a","r","e"," ","n","a","m","e"," "," ","T","y","p","e"," "," ",
      "C","o","m","m","e","n","t">>

LineFooter ==
    <<"T","h","e"," ","c","o","m","m","a","n","d"," ","c","o","m","p","l","e","t","e","d",
      " ","s","u","c","c","e","s","s","f","u","l","l","y",".">>

\* the lines bufio.Scanner yields for the output of `net view \\ip`
NetView(rows) ==
    <<LineHeader>> \o [k \in 1..Len(rows) |-> Render(rows[k])] \o <<LineFooter>>

TypePrint == <<"P","r","i","n","t">>

TypeDisk == <<"D","i","s","k">>

NameHP      == <<"H","P">>
NameHPLJ    == <<"H","P"," ","L","J">>
NameIPC     == <<"I","P","C","$">>
NameXIpc    == <<"x","I","p","c","$">>
NamePrinter == <<"P","r","i","n","t","e","r">>
NameDocs    == <<"D","o","c","s">>

\* the row of the line "HPPrinter            Print      Shared printer"
RowExample ==
    Row(<<"H","P","P","r","i","n","t","e","r">>, 12, TypePrint, 6,
        <<"S","h","a","r","e","d"," ","p","r","i","n","t","e","r">>)

\* a disk share whose remark holds the marker
RowDiskRemark ==
    Row(NameDocs, 2, TypeDisk, 2, <<"P","r","i","n","t"," ","r","o","o","m">>)

RowHP   == Row(NameHP, 2, TypePrint, 2, <<>>)
RowLJ   == Row(NameHPLJ, 2, TypePrint, 2, <<"l","a","b">>)
RowIpc  == Row(NameIPC, 2, TypePrint, 2, <<>>)
RowDocs == Row(NameDocs, 2, TypeDisk, 2, <<>>)

\* share tables of the hosts of a scan: no printer, one printer, two
\* printers among other shares
SampleTables ==
    { <<RowDocs, RowIpc>>,
      <<RowLJ>>,
      <<RowIpc, RowHP, RowDocs, RowLJ>> }

\* what a candidate answers: whether port 445 accepts the connection,
\* whether `net view` exits with status 0, and the table it lists
Answer(reachable, cmdOk, rows) ==
    [reachable |-> reachable, cmdOk |-> cmdOk, rows |-> rows]

Responses ==
    {Answer(r, FALSE, <<>>) : r \in BOOLEAN}
    \cup {Answer(FALSE, TRUE, <<RowLJ>>)}
    \cup {Answer(TRUE, TRUE, t) : t \in SampleTables}

\* rows of every shape: names that are empty, plain, with a space inside,
\* the administrative share, a name holding its token, a name holding the marker
TestNames == {<<>>, NameHP, NameHPLJ, NameIPC, NameXIpc, NamePrinter}

TestRows ==
    {Row(n, 2, t, 2, <<>>) : n \in TestNames, t \in {TypePrint, TypeDisk}}
    \cup {RowExample, RowDiskRemark}

RECURSIVE SeqsUpTo(_, _)
\* the sequences of at most n elements of S
SeqsUpTo(S, n) ==
    IF n = 0 THEN {<<>>}
    ELSE LET shorter == SeqsUpTo(S, n - 1)
         IN  shorter \cup {Append(q, x) : q \in shorter, x \in S}

TestResponses ==
    {Answer(TRUE, ok, t) : ok \in BOOLEAN, t \in SeqsUpTo(TestRows, MaxLines)}

-----------------------------------------------------------------------------
(* Package net: IPv4 addresses, masks and the text of an address block *)

RECURSIVE Pow2(_)
Pow2(n) == IF n = 0 THEN 1 ELSE 2 * Pow2(n - 1)

RECURSIVE BitAnd(_, _, _)
\* x & y on n-bit operands
BitAnd(x, y, n) ==
    IF n = 0 THEN 0
    ELSE 2 * BitAnd(x \div 2, y \div 2, n - 1) + (IF x % 2 = 1 /\ y % 2 = 1 THEN 1 ELSE 0)

\* the conversion byte(n)
Byte(n) == n % 256

\* the number of leading one bits of the mask of prefix length bits that fall
\* into octet k
OnesInOctet(bits, k) ==
    IF bits >= 8 * k THEN 8
    ELSE IF bits <= 8 * (k - 1) THEN 0
    ELSE bits - 8 * (k - 1)

\* net.CIDRMask(bits, 32)
CIDRMask(bits) == [k \in 1..4 |-> 256 - Pow2(8 - OnesInOctet(bits, k))]

\* net.IP.Mask: out[i] = ip[i] & mask[i]
Mask(addr, mask) == [k \in 1..4 |-> BitAnd(addr[k], mask[k], 8)]

\* net.IPNet.Contains: n.IP[i]&n.Mask[i] = ip[i]&n.Mask[i] for every octet
IPNetContains(n, addr) ==
    \A k \in 1..4 : BitAnd(n.IP[k], n.Mask[k], 8) = BitAnd(addr[k], n.Mask[k], 8)

\* net.IPv4(a, b, c, d)
IPv4(a, b, c, d) == <<a, b, c, d>>

IsDigit(c) == \E k \in DOMAIN DigitChars : DigitChars[k] = c

DigitVal(c) == (CHOOSE k \in DOMAIN DigitChars : DigitChars[k] = c) - 1

RECURSIVE Atoi(_)
\* the value of a string of decimal digits
Atoi(s) ==
    IF Len(s) = 0 THEN 0
    ELSE 10 * Atoi(SubSeq(s, 1, Len(s) - 1)) + DigitVal(s[Len(s)])

\* s is a decimal number of at most maxLen digits, without a leading zero, not above max
IsDecimal(s, maxLen, max) ==
    /\ Len(s) \in 1..maxLen
    /\ \A k \in DOMAIN s : IsDigit(s[k])
    /\ Len(s) > 1 => s[1] # "0"
    /\ Atoi(s) <= max

RECURSIVE Split(_, _)
\* strings.Split(s, sep) for a separator of one character
Split(s, sep) ==
    IF Contains(s, sep)
    THEN ApplyTo(Index(s, sep),
             LAMBDA at : <<SubSeq(s, 1, at)>> \o Split(SubSeq(s, at + 2, Len(s)), sep))
    ELSE <<s>>

\* the failure of net.ParseCIDR
ParseError == [err |-> "InvalidAddressBlock", ip |-> <<>>, ipnet |-> [IP |-> <<>>, Mask |-> <<>>]]

\* the results of net.ParseCIDR for the dotted-decimal address a and the prefix length m
ParsedBlock(a, m) ==
    IF Len(a) = 4 /\ (\A k \in DOMAIN a : IsDecimal(a[k], 3, 255)) /\ IsDecimal(m, 2, 32)
    THEN ApplyTo([k \in 1..4 |-> Atoi(a[k])],
             LAMBDA addr :
                 [err |-> "nil", ip |-> addr,
                  ipnet |-> [IP |-> Mask(addr, CIDRMask(Atoi(m))), Mask |-> CIDRMask(Atoi(m))]])
    ELSE ParseError

\* net.ParseCIDR(s) for the text "a.b.c.d/m" of an IPv4 block: the address, the
\* network (the masked address and the mask), or an error
ParseCIDR(s) ==
    IF Contains(s, <<"/">>)
    THEN ApplyTo(Index(s, <<"/">>),
             LAMBDA at : ParsedBlock(Split(SubSeq(s, 1, at), <<".">>),
                                     SubSeq(s, at + 2, Len(s))))
    ELSE ParseError

\* net.IPNet.String of an IPv4 network: the address, "/" and the prefix length
CIDRString(addr, bits) == IPString(addr) \o <<"/">> \o Itoa(bits)

-----------------------------------------------------------------------------
(* getNetworkRange *)

\* `minHost = 100`, `maxHost = 110` (src/unnamed/part_001)
minHost == 100

maxHost == 110

\* incIP(ip): ip[j]++ from the last octet, stopping at the first octet that
\* does not wrap to 0
incIP(addr) ==
    IF addr[4] < 255 THEN <<addr[1], addr[2], addr[3], addr[4] + 1>>
    ELSE IF addr[3] < 255 THEN <<addr[1], addr[2], addr[3] + 1, 0>>
    ELSE IF addr[2] < 255 THEN <<addr[1], addr[2] + 1, 0, 0>>
    ELSE IF addr[1] < 255 THEN <<addr[1] + 1, 0, 0, 0>>
    ELSE <<0, 0, 0, 0>>

\* full-subnet: `if len(ips) > 2 { return ips[1 : len(ips)-1], nil }; return ips, nil`
FullRangeResult(all) ==
    IF Len(all) > 2 THEN SubSeq(all, 2, Len(all) - 1) ELSE all

\* full-subnet, the run followed from a later iteration: what rangeIps keeps of
\* `ips[1 : len(ips)-1]`, the slice then holds more than two elements and its
\* first one is not among the kept ones
LateRangeResult(kept) == SubSeq(kept, 1, Len(kept) - 1)

\* the model follows the loop of the full-subnet variant for at most this
\* many elements: the number of addresses of the largest block enumerated whole
RangeCap == Pow2(MaxHostBits)

\* bounded-range: `candidate := net.IPv4(baseIP[0], baseIP[1], baseIP[2], byte(i))`
candidate(baseIP, n) == IPv4(baseIP[1], baseIP[2], baseIP[3], Byte(n))

\* no block behind a malformed text
NoBlock == [ok |-> FALSE, addr |-> <<>>, bits |-> 0]

-----------------------------------------------------------------------------
(* main *)

\* getLocalInterfaces and selectInterface are not running
IfacesIdle ==
    /\ hostInterfaces = [err |-> FALSE, list |-> <<>>]
    /\ ifpc = "idle"
    /\ ifaceK = 1
    /\ result = <<>>
    /\ ifErr = "nil"
    /\ selectedInterface = [Name |-> <<>>, IP |-> <<>>, CIDR |-> <<>>]

\* getNetworkRange has returned the candidates c
RangeReturned(c) ==
    /\ policy = "bounded"
    /\ block = [ok |-> TRUE, addr |-> <<192, 168, 0, 0>>, bits |-> 24]
    /\ cidr = CIDRString(<<192, 168, 0, 0>>, 24)
    /\ rpc = "returned"
    /\ ipnet = ParseCIDR(CIDRString(<<192, 168, 0, 0>>, 24)).ipnet
    /\ loopIP = <<192, 168, 0, 0>>
    /\ hostNum = maxHost + 1
    /\ rangeIps = c
    /\ elided = FALSE
    /\ rangeErr = "nil"

IdleTask ==
    [pc |-> "idle", ip |-> <<>>, dials |-> 0, dialed |-> <<>>, conn |-> "none",
     listed |-> <<>>, shareNames |-> <<>>, err |-> "nil", k |-> 1]

\* the state of main at `var wg sync.WaitGroup`, for the candidates c and the environment nw
Start(c, nw, perIteration) ==
    /\ IfacesIdle
    /\ RangeReturned(c)
    /\ probeCalls = <<>>
    /\ loopVarPerIteration = perIteration
    /\ ips = c
    /\ network = nw
    /\ mainpc = "launch"
    /\ next = 1
    /\ wg = 0
    /\ task = [i \in 1..Len(c) |-> IdleTask]
    /\ printers = <<>>
    /\ closes = 0
    /\ panicked = FALSE
    /\ closerpc = "idle"
    /\ cells = <<>>
    /\ targetPrinter = 0
    /\ reported = <<>>
    /\ connectCalls = <<>>
    /\ addCmdRuns = <<>>
    /\ setDefaultCalls = <<>>
    /\ messages = <<>>

\* a scan of up to MaxHosts candidates
Init ==
    \E n \in 1..MaxHosts : \E nw \in [1..n -> Responses] : \E b \in BOOLEAN :
        Start(Candidates(n), nw, b)

\* a scan of one candidate, whose share table is any of the tables of test rows
InitShares ==
    \E nw \in [1..1 -> TestResponses] : \E b \in BOOLEAN :
        Start(Candidates(1), nw, b)

\* the process runs: a panic ends it
Running == ~panicked

\* make(chan Printer, len(ips))
Capacity == Len(ips)

\* a closure that reads the variable of the launch loop when it runs, after the loop
TaskIPMut(n) == ips[Len(ips)]

\* the argument of `go func(ip string) {...}(ip)` in iteration n of the launch loop
TaskIP(n) == ips[n]

\* `for _, ip := range ips { wg.Add(1); go func(ip string) {...}(ip) }`: one iteration
Launch ==
    /\ Running
    /\ mainpc = "launch"
    /\ next <= Len(ips)
    /\ wg' = wg + 1
    /\ task' = [task EXCEPT ![next].pc = "dial", ![next].ip = TaskIP(next)]
    /\ next' = next + 1
    /\ UNCHANGED <<startupVars, probeCalls, loopVarPerIteration, ips, network, mainpc, printers, closes,
                   panicked, closerpc, cells, targetPrinter, reported,
                   connectCalls, addCmdRuns, setDefaultCalls, messages>>

\* `go func() { wg.Wait(); close(printers) }()` after the launch loop
StartCloser ==
    /\ Running
    /\ mainpc = "launch"
    /\ next > Len(ips)
    /\ closerpc' = "wait"
    /\ mainpc' = "range"
    /\ UNCHANGED <<startupVars, probeCalls, loopVarPerIteration, ips, network, next, wg, task, printers,
                   closes, panicked, cells, targetPrinter, reported,
                   connectCalls, addCmdRuns, setDefaultCalls, messages>>

\* the error of net.DialTimeout ignored
DialSucceedsMut(i) == TRUE

\* net.DialTimeout to port 445 of candidate i returns a connection
DialSucceeds(i) == network[i].reachable

\* `smbPort = 445`
smbPort == 445

\* fmt.Sprintf("%s:%d", ip, smbPort)
DialAddr(addr) == addr \o <<":">> \o Itoa(smbPort)

\* the connection kept open while the task goes on
ConnAfterDialMut(ok) == IF ok THEN "open" ELSE "none"

\* the connection after `conn, err := net.DialTimeout(...); if err != nil { return }; conn.Close()`
ConnAfterDial(ok) == IF ok THEN "closed" ELSE "none"

\* net.DialTimeout returns: `if err != nil { return }`, otherwise conn.Close()
Dial(i) ==
    /\ Running
    /\ task[i].pc = "dial"
    /\ task' = [task EXCEPT ![i] =
                   IF DialSucceeds(i)
                   THEN [@ EXCEPT !.pc = "getShares", !.dials = @ + 1,
                                  !.dialed = DialAddr(task[i].ip),
                                  !.conn = ConnAfterDial(TRUE)]
                   ELSE [@ EXCEPT !.pc = "return", !.dials = @ + 1,
                                  !.dialed = DialAddr(task[i].ip),
                                  !.conn = ConnAfterDial(FALSE), !.err = "DialFailed"]]
    /\ UNCHANGED <<startupVars, probeCalls, loopVarPerIteration, ips, network, mainpc, next, wg, printers,
                   closes, panicked, closerpc, cells, targetPrinter, reported,
                   connectCalls, addCmdRuns, setDefaultCalls, messages>>

\* `shareNames, err := getShares(ip); if err != nil { return }`, then the
\* range loop over shareNames is entered unless shareNames is empty
GetShares(i) ==
    /\ Running
    /\ task[i].pc = "getShares"
    /\ \E output \in {NetView(network[i].rows)} :
       \E r \in {getShares(network[i].cmdOk, output)} :
           task' = [task EXCEPT ![i] =
                       [@ EXCEPT !.pc = IF r.err # "nil" \/ Len(r.shares) = 0
                                        THEN "return" ELSE "send",
                                 !.listed = Append(@, [ip |-> task[i].ip, conn |-> task[i].conn]),
                                 !.shareNames = r.shares, !.err = r.err, !.k = 1]]
    /\ UNCHANGED <<startupVars, probeCalls, loopVarPerIteration, ips, network, mainpc, next, wg, printers,
                   closes, panicked, closerpc, cells, targetPrinter, reported,
                   connectCalls, addCmdRuns, setDefaultCalls, messages>>

\* a channel without a bound on its buffer
CanSendMut == TRUE

\* a send on the channel can proceed: there is room in the buffer (a send on a
\* closed channel does not wait either: it panics)
CanSend == closes > 0 \/ Len(printers) < Capacity

\* the range loop over shareNames left one element early
LastSendMut(i) == task[i].k >= Len(task[i].shareNames) - 1

\* the range loop over shareNames is at its last element
LastSend(i) == task[i].k = Len(task[i].shareNames)

\* `printers <- Printer{...}` for shareNames[k]
Send(i) ==
    /\ Running
    /\ task[i].pc = "send"
    /\ CanSend
    /\ IF closes > 0
       THEN /\ panicked' = TRUE
            /\ UNCHANGED <<printers, task>>
       ELSE /\ printers' = Append(printers, MkPrinter(task[i].ip, task[i].shareNames[task[i].k]))
            /\ task' = [task EXCEPT
                           ![i].k = @ + 1,
                           ![i].pc = IF LastSend(i) THEN "return" ELSE "send"]
            /\ UNCHANGED panicked
    /\ UNCHANGED <<startupVars, probeCalls, loopVarPerIteration, ips, network, mainpc, next, wg, closes,
                   closerpc, cells, targetPrinter, reported,
                   connectCalls, addCmdRuns, setDefaultCalls, messages>>

\* wg.Done() reached only when the task returns without an error
FinishMut(i) ==
    /\ Running
    /\ task[i].pc = "return"
    /\ wg' = IF task[i].err = "nil" THEN wg - 1 ELSE wg
    /\ task' = [task EXCEPT ![i].pc = "done"]
    /\ UNCHANGED <<startupVars, probeCalls, loopVarPerIteration, ips, network, mainpc, next, printers,
                   closes, panicked, closerpc, cells, targetPrinter, reported,
                   connectCalls, addCmdRuns, setDefaultCalls, messages>>

\* `defer wg.Done()` when the task returns
Finish(i) ==
    /\ Running
    /\ task[i].pc = "return"
    /\ wg' = wg - 1
    /\ task' = [task EXCEPT ![i].pc = "done"]
    /\ UNCHANGED <<startupVars, probeCalls, loopVarPerIteration, ips, network, mainpc, next, printers,
                   closes, panicked, closerpc, cells, targetPrinter, reported,
                   connectCalls, addCmdRuns, setDefaultCalls, messages>>

\* close(printers) without waiting for the tasks
WaitDoneMut == TRUE

\* wg.Wait() may return
WaitDone == wg = 0

\* wg.Wait() returns in the closer goroutine
CloserWait ==
    /\ Running
    /\ closerpc = "wait"
    /\ WaitDone
    /\ closerpc' = "close"
    /\ UNCHANGED <<startupVars, probeCalls, loopVarPerIteration, ips, network, mainpc, next, wg, task,
                   printers, closes, panicked, cells, targetPrinter, reported,
                   connectCalls, addCmdRuns, setDefaultCalls, messages>>

\* close(printers)
CloserClose ==
    /\ Running
    /\ closerpc = "close"
    /\ closes' = closes + 1
    /\ panicked' = (panicked \/ closes > 0)
    /\ closerpc' = "done"
    /\ UNCHANGED <<startupVars, probeCalls, loopVarPerIteration, ips, network, mainpc, next, wg, task,
                   printers, cells, targetPrinter, reported,
                   connectCalls, addCmdRuns, setDefaultCalls, messages>>

\* a consumer that drains only after all tasks have finished
CanRecvMut == Len(printers) > 0 /\ wg = 0

\* the range loop can receive: the buffer holds an item
CanRecv == Len(printers) > 0

\* the loop variable after receiving p: a fresh instance per iteration, or the
\* one instance of the whole loop overwritten
StoreLoopVar(p) == IF loopVarPerIteration THEN Append(cells, p) ELSE <<p>>

\* `targetPrinter = &printer` when targetPrinter is nil: the address of the
\* instance that holds the item just received
AddressOfLoopVar(newCells) == IF targetPrinter = 0 THEN Len(newCells) ELSE targetPrinter

\* one iteration of `for printer := range printers`
Recv ==
    /\ Running
    /\ mainpc = "range"
    /\ CanRecv
    /\ LET p == Head(printers)
       IN  /\ printers' = Tail(printers)
           /\ reported' = Append(reported, p)
           /\ cells' = StoreLoopVar(p)
           /\ targetPrinter' = AddressOfLoopVar(StoreLoopVar(p))
    /\ UNCHANGED <<startupVars, probeCalls, loopVarPerIteration, ips, network, mainpc, next, wg, task,
                   closes, panicked, closerpc,
                   connectCalls, addCmdRuns, setDefaultCalls, messages>>

\* the loop left as soon as a target is known
RangeEndsMut == targetPrinter # 0 \/ (closes > 0 /\ Len(printers) = 0)

\* `for printer := range printers` ends when the channel is closed and drained
RangeEnds == closes > 0 /\ Len(printers) = 0

\* the range loop ends: the channel is closed and drained
RangeExit ==
    /\ Running
    /\ mainpc = "range"
    /\ RangeEnds
    /\ mainpc' = "check"
    /\ UNCHANGED <<startupVars, probeCalls, loopVarPerIteration, ips, network, next, wg, task, printers,
                   closes, panicked, closerpc, cells, targetPrinter, reported,
                   connectCalls, addCmdRuns, setDefaultCalls, messages>>

\* *targetPrinter
Target == cells[targetPrinter]

\* `if targetPrinter == nil { ...; return }` and the line naming the selection
CheckTarget ==
    /\ Running
    /\ mainpc = "check"
    /\ IF targetPrinter = 0
       THEN /\ messages' = Append(messages, <<"NoPrintersFound">>)
            /\ mainpc' = "done"
       ELSE /\ messages' = Append(messages, <<"Selected", Target.FullPath>>)
            /\ mainpc' = "connect"
    /\ UNCHANGED <<startupVars, probeCalls, loopVarPerIteration, ips, network, next, wg, task, printers,
                   closes, panicked, closerpc, cells, targetPrinter, reported,
                   connectCalls, addCmdRuns, setDefaultCalls>>

\* what the count query of isPrinterConnected may print
CountOutputs ==
    { <<"1">>, <<"1", "\r", "\n">>, <<"0", "\r", "\n">>, <<"2", "\r", "\n">>, <<>> }

\* isPrinterConnected: false when the query fails, else whether its trimmed output is "1"
isPrinterConnected(cmdOk, output) == cmdOk /\ TrimSpace(output) = <<"1">>

\* connectPrinter without the early return
SkipsAddMut(connected) == FALSE

\* connectPrinter: `if isPrinterConnected(printer.FullPath) { ...; return nil }`
SkipsAdd(connected) == connected

\* connectPrinter(printer), for what isPrinterConnected reports and whether the
\* add-printer command succeeds: the error and whether the command was run
connectPrinter(connected, addOk) ==
    IF SkipsAdd(connected) THEN [err |-> "nil", added |-> FALSE]
    ELSE [err |-> IF addOk THEN "nil" ELSE "AddPrinterFailed", added |-> TRUE]

\* main going on to setDefaultPrinter whatever connectPrinter returned
AfterConnectMut(err) == "setDefault"

\* main after connectPrinter: `if err != nil { ...; return }`
AfterConnect(err) == IF err # "nil" THEN "done" ELSE "setDefault"

\* `if err := connectPrinter(*targetPrinter); err != nil { ...; return }`
ConnectPrinter ==
    /\ Running
    /\ mainpc = "connect"
    /\ connectCalls' = Append(connectCalls, Target)
    /\ \E cmdOk \in BOOLEAN : \E output \in CountOutputs : \E addOk \in BOOLEAN :
       \E connected \in {isPrinterConnected(cmdOk, output)} :
       \E r \in {connectPrinter(connected, addOk)} :
          /\ probeCalls' = Append(probeCalls,
                               [path |-> Target.FullPath, connected |-> connected])
          /\ addCmdRuns' = IF r.added THEN Append(addCmdRuns, Target.FullPath)
                           ELSE addCmdRuns
          /\ messages' = messages
                 \o (IF connected /\ ~r.added
                     THEN << <<"AlreadyConnected", Target.FullPath>> >> ELSE <<>>)
                 \o (IF r.err # "nil" THEN << <<"ConnectFailed">> >> ELSE <<>>)
          /\ mainpc' = AfterConnect(r.err)
    /\ UNCHANGED <<startupVars, loopVarPerIteration, ips, network, next, wg, task, printers,
                   closes, panicked, closerpc, cells, targetPrinter, reported,
                   setDefaultCalls>>

\* what the IsDefault query of setDefaultPrinter may print
DefaultOutputs ==
    { <<"T", "r", "u", "e", "\r", "\n">>, <<"F", "a", "l", "s", "e", "\r", "\n">>, <<>> }

\* setDefaultPrinter(printer), for whether the set-default command and the
\* IsDefault query succeed and what the query prints: the error returned
setDefaultPrinter(cmdOk, checkOk, output) ==
    IF ~cmdOk THEN "SetDefaultFailed"
    ELSE IF ~checkOk \/ ~Contains(output, <<"T", "r", "u", "e">>) THEN "VerifyFailed"
    ELSE "nil"

\* `if err := setDefaultPrinter(*targetPrinter); err != nil { ...; return }` and the final line
SetDefaultPrinter ==
    /\ Running
    /\ mainpc = "setDefault"
    /\ setDefaultCalls' = Append(setDefaultCalls, Target)
    /\ \E cmdOk \in BOOLEAN : \E checkOk \in BOOLEAN : \E output \in DefaultOutputs :
       \E err \in {setDefaultPrinter(cmdOk, checkOk, output)} :
          messages' = Append(messages,
              IF err = "nil" THEN <<"Success", Target.FullPath>> ELSE <<"SetDefaultFailed">>)
    /\ mainpc' = "done"
    /\ UNCHANGED <<startupVars, probeCalls, loopVarPerIteration, ips, network, next, wg, task, printers,
                   closes, panicked, closerpc, cells, targetPrinter, reported,
                   connectCalls, addCmdRuns>>

-----------------------------------------------------------------------------
(* getLocalInterfaces and selectInterface *)

\* strings.HasPrefix
HasPrefix(s, prefix) == Len(s) >= Len(prefix) /\ SubSeq(s, 1, Len(prefix)) = prefix

\* the prefix "169.254." of the link-local addresses
LinkLocalPrefix == <<"1", "6", "9", ".", "2", "5", "4", ".">>

\* an address of an interface: a *net.IPNet or another net.Addr, of IPv4 or not
\* (To4 is nil), the address and the prefix length of its network
IfAddr(isIPNet, v4, addr, bits) ==
    [isIPNet |-> isIPNet, v4 |-> v4, addr |-> addr, bits |-> bits]

\* an interface: its name, the flags up and loopback, whether Addrs succeeds
\* and the addresses it reports
Iface(name, up, loopback, addrsOk, addrs) ==
    [Name |-> name, up |-> up, loopback |-> loopback, addrsOk |-> addrsOk, addrs |-> addrs]

\* the loopback test left out
UsableMut(iface) == iface.up

\* `if iface.Flags&net.FlagUp == 0 || iface.Flags&net.FlagLoopback != 0 { continue }`
Usable(iface) == iface.up /\ ~iface.loopback

\* the body of `for _, addr := range addrs`: what one address adds to result
EntryOf(iface, a) ==
    IF a.isIPNet /\ a.v4
    THEN IF HasPrefix(IPString(a.addr), LinkLocalPrefix)
         THEN <<>>
         ELSE << [Name |-> iface.Name, IP |-> IPString(a.addr),
                  CIDR |-> CIDRString(a.addr, a.bits)] >>
    ELSE <<>>

RECURSIVE EntriesFrom(_, _)
\* the loop over the addresses of an interface, from address k on
EntriesFrom(iface, k) ==
    IF k > Len(iface.addrs) THEN <<>>
    ELSE EntryOf(iface, iface.addrs[k]) \o EntriesFrom(iface, k + 1)

\* the body of `for _, iface := range interfaces`: what one interface adds to result
EntriesOf(iface) ==
    IF ~Usable(iface) \/ ~iface.addrsOk THEN <<>> ELSE EntriesFrom(iface, 1)

NameEth == <<"e", "t", "h", "0">>
NameWifi == <<"w", "l", "a", "n", "0">>
NameLo == <<"l", "o">>

\* addresses of every kind: a private address, a link-local address, two
\* addresses whose text only resembles the link-local prefix, an IPv6
\* address, an IPv4 address reported without its network
TestIfAddrs ==
    { IfAddr(TRUE, TRUE, <<192, 168, 0, 37>>, 24),
      IfAddr(TRUE, TRUE, <<169, 254, 17, 3>>, 16),
      IfAddr(TRUE, TRUE, <<169, 25, 4, 1>>, 16),
      IfAddr(TRUE, TRUE, <<16, 9, 254, 1>>, 8),
      IfAddr(TRUE, FALSE, <<>>, 64),
      IfAddr(FALSE, TRUE, <<10, 1, 2, 3>>, 8) }

\* the interfaces the first place of the list is drawn from
TestIfaces ==
    { Iface(NameEth, f[1], f[2], f[3], q) :
        f \in { <<TRUE, FALSE, TRUE>>, <<FALSE, FALSE, TRUE>>,
                <<TRUE, TRUE, TRUE>>, <<TRUE, FALSE, FALSE>> },
        q \in SeqsUpTo(TestIfAddrs, MaxAddrs) }

\* the interfaces after the first one: none, the loopback device, a second
\* adapter with an address, a second adapter that is down
TestTails ==
    { <<>>,
      << Iface(NameLo, TRUE, TRUE, TRUE, <<IfAddr(TRUE, TRUE, <<127, 0, 0, 1>>, 8)>>) >>,
      << Iface(NameLo, TRUE, TRUE, TRUE, <<IfAddr(TRUE, TRUE, <<127, 0, 0, 1>>, 8)>>),
         Iface(NameWifi, TRUE, FALSE, TRUE, <<IfAddr(TRUE, TRUE, <<10, 1, 2, 3>>, 8)>>) >>,
      << Iface(NameWifi, FALSE, FALSE, TRUE, <<IfAddr(TRUE, TRUE, <<10, 1, 2, 3>>, 8)>>) >> }

\* what net.Interfaces reports: an error, or a list of interfaces
TestHosts ==
    { [err |-> TRUE, list |-> <<>>] }
    \cup { [err |-> FALSE, list |-> t] : t \in TestTails }
    \cup { [err |-> FALSE, list |-> <<x>> \o t] : x \in TestIfaces, t \in TestTails }

\* getNetworkRange has not been called
RangeIdle ==
    /\ policy = "full"
    /\ block = NoBlock
    /\ cidr = <<>>
    /\ rpc = "idle"
    /\ ipnet = ParseError.ipnet
    /\ loopIP = <<>>
    /\ hostNum = minHost
    /\ rangeIps = <<>>
    /\ elided = FALSE
    /\ rangeErr = "nil"

\* main at `interfaces, err := getLocalInterfaces()`
InitIfaces ==
    /\ hostInterfaces \in TestHosts
    /\ ifpc = "call"
    /\ ifaceK = 1
    /\ result = <<>>
    /\ ifErr = "nil"
    /\ selectedInterface = [Name |-> <<>>, IP |-> <<>>, CIDR |-> <<>>]
    /\ RangeIdle
    /\ mainpc = "getLocalInterfaces"
    /\ loopVarPerIteration = FALSE
    /\ ips = <<>>
    /\ network = <<>>
    /\ next = 1
    /\ wg = 0
    /\ task = <<>>
    /\ printers = <<>>
    /\ closes = 0
    /\ panicked = FALSE
    /\ closerpc = "idle"
    /\ cells = <<>>
    /\ targetPrinter = 0
    /\ reported = <<>>
    /\ connectCalls = <<>>
    /\ addCmdRuns = <<>>
    /\ setDefaultCalls = <<>>
    /\ messages = <<>>
    /\ probeCalls = <<>>

\* the variables of main from the launch loop on
scanVars == <<loopVarPerIteration, ips, network, next, wg, task, printers, closes,
              panicked, closerpc, cells, targetPrinter, reported, connectCalls,
              addCmdRuns, setDefaultCalls, probeCalls>>

\* `interfaces, err := net.Interfaces(); if err != nil { return nil, ... }`
IfacesCall ==
    /\ mainpc = "getLocalInterfaces"
    /\ ifpc = "call"
    /\ IF hostInterfaces.err
       THEN ifErr' = "InterfacesFailed" /\ ifpc' = "returned"
       ELSE ifErr' = ifErr /\ ifpc' = "loop"
    /\ UNCHANGED <<hostInterfaces, ifaceK, result, selectedInterface, rangeVars,
                   scanVars, mainpc, messages>>

\* one iteration of `for _, iface := range interfaces`, or its end
IfacesLoop ==
    /\ mainpc = "getLocalInterfaces"
    /\ ifpc = "loop"
    /\ IF ifaceK <= Len(hostInterfaces.list)
       THEN /\ result' = result \o EntriesOf(hostInterfaces.list[ifaceK])
            /\ ifaceK' = ifaceK + 1
            /\ UNCHANGED ifpc
       ELSE /\ ifpc' = "return"
            /\ UNCHANGED <<result, ifaceK>>
    /\ UNCHANGED <<hostInterfaces, ifErr, selectedInterface, rangeVars,
                   scanVars, mainpc, messages>>

\* `if len(result) == 0 { return nil, fmt.Errorf(...) }; return result, nil`
IfacesResult(found) ==
    IF Len(found) = 0 THEN [list |-> <<>>, err |-> "NoInterfacesFound"]
    ELSE [list |-> found, err |-> "nil"]

\* the return of getLocalInterfaces after the loop
IfacesReturn ==
    /\ mainpc = "getLocalInterfaces"
    /\ ifpc = "return"
    /\ \E r \in {IfacesResult(result)} :
          /\ result' = r.list
          /\ ifErr' = r.err
    /\ ifpc' = "returned"
    /\ UNCHANGED <<hostInterfaces, ifaceK, selectedInterface, rangeVars,
                   scanVars, mainpc, messages>>

\* `interfaces, err := getLocalInterfaces(); if err != nil { fmt.Println(...); return }`
MainInterfaces ==
    /\ mainpc = "getLocalInterfaces"
    /\ ifpc = "returned"
    /\ IF ifErr # "nil"
       THEN /\ messages' = Append(messages, <<"InterfacesFailed", ifErr>>)
            /\ mainpc' = "done"
       ELSE /\ messages' = messages
            /\ mainpc' = "selectInterface"
    /\ UNCHANGED <<ifaceVars, rangeVars, scanVars>>

\* `selectedInterface, err := selectInterface(interfaces); if err != nil { ...; return }`:
\* selectInterface returns interfaces[0], or an error for an empty slice
SelectInterface ==
    /\ mainpc = "selectInterface"
    /\ IF Len(result) > 0
       THEN /\ selectedInterface' = result[1]
            /\ messages' = Append(messages, <<"SelectedInterface", result[1].Name, result[1].IP>>)
            /\ mainpc' = "getNetworkRange"
       ELSE /\ selectedInterface' = selectedInterface
            /\ messages' = Append(messages, <<"SelectFailed">>)
            /\ mainpc' = "done"
    /\ UNCHANGED <<hostInterfaces, ifpc, ifaceK, result, ifErr, rangeVars, scanVars>>

\* main from its start to the call of getNetworkRange
NextIfaces ==
    \/ IfacesCall
    \/ IfacesLoop
    \/ IfacesReturn
    \/ MainInterfaces
    \/ SelectInterface

SpecIfaces == InitIfaces /\ [][NextIfaces]_vars

-----------------------------------------------------------------------------
(* main before the launch loop: getNetworkRange *)

\* the addresses the blocks of the model are written from
TestAddrs ==
    { <<192, 168, 0, 0>>, <<192, 168, 0, 37>>, <<192, 168, 0, 100>>,
      <<192, 168, 0, 109>>, <<192, 168, 1, 200>>, <<10, 1, 2, 3>>,
      <<172, 16, 255, 105>>, <<255, 255, 255, 254>> }

\* the blocks of the model: an address and a prefix length that leaves at
\* most MaxHostBits bits to the host number
TestBlocks ==
    {[ok |-> TRUE, addr |-> a, bits |-> b] : a \in TestAddrs, b \in (32 - MaxHostBits)..32}

\* texts that are no address block: empty, without a prefix length, with a
\* prefix length above 32 or none after the slash, with three or five octets,
\* with an octet above 255, with a letter
MalformedTexts ==
    { <<>>,
      <<"1", "0", ".", "0", ".", "0", ".", "1">>,
      <<"1", "0", ".", "0", ".", "0", ".", "1", "/", "3", "3">>,
      <<"1", "0", ".", "0", ".", "0", ".", "1", "/">>,
      <<"1", "0", ".", "0", ".", "1", "/", "2", "4">>,
      <<"1", "0", ".", "0", ".", "0", ".", "0", ".", "1", "/", "2", "4">>,
      <<"1", "0", ".", "0", ".", "0", ".", "2", "5", "6", "/", "2", "4">>,
      <<"1", "0", ".", "0", ".", "0", ".", "x", "/", "2", "4">> }

\* main at `ips, err := getNetworkRange(selectedInterface.CIDR)`: nothing is
\* launched, received or installed
MainAtRange ==
    /\ mainpc = "getNetworkRange"
    /\ loopVarPerIteration = FALSE
    /\ ips = <<>>
    /\ network = <<>>
    /\ next = 1
    /\ wg = 0
    /\ task = <<>>
    /\ printers = <<>>
    /\ closes = 0
    /\ panicked = FALSE
    /\ closerpc = "idle"
    /\ cells = <<>>
    /\ targetPrinter = 0
    /\ reported = <<>>
    /\ connectCalls = <<>>
    /\ addCmdRuns = <<>>
    /\ setDefaultCalls = <<>>
    /\ messages = <<>>
    /\ probeCalls = <<>>

\* main at `ips, err := getNetworkRange(selectedInterface.CIDR)`, for the variant
\* p of getNetworkRange, the block b and its text c
StartRange(p, b, c) ==
    /\ policy = p
    /\ block = b
    /\ cidr = c
    /\ rpc = "parse"
    /\ ipnet = ParseError.ipnet
    /\ loopIP = <<>>
    /\ hostNum = minHost
    /\ rangeIps = <<>>
    /\ elided = FALSE
    /\ rangeErr = "nil"
    /\ MainAtRange

\* getNetworkRange is called with the text of a block, or with a malformed text
InitRange ==
    /\ IfacesIdle
    /\ \E p \in {"full", "bounded"} :
          \/ \E b \in TestBlocks : StartRange(p, b, CIDRString(b.addr, b.bits))
          \/ \E c \in MalformedTexts : StartRange(p, NoBlock, c)

\* `ip, ipnet, err := net.ParseCIDR(cidr); if err != nil { return nil, err }`,
\* then the masked address: the initial value of the loop variable ip
\* (full-subnet), or baseIP (bounded-range)
RangeParse ==
    /\ mainpc = "getNetworkRange"
    /\ rpc = "parse"
    /\ policy \in {"full", "bounded"}
    /\ \E r \in {ParseCIDR(cidr)} :
          IF r.err # "nil"
          THEN /\ rangeErr' = r.err
               /\ rpc' = "returned"
               /\ UNCHANGED <<ipnet, loopIP>>
          ELSE /\ ipnet' = r.ipnet
               /\ loopIP' = Mask(r.ip, r.ipnet.Mask)
               /\ rpc' = "loop"
               /\ UNCHANGED rangeErr
    /\ UNCHANGED <<policy, block, cidr, elided, hostNum, rangeIps>>
    /\ UNCHANGED <<ifaceVars, loopVarPerIteration, ips, network, mainpc, next, wg, task,
                   printers, closes, panicked, closerpc, cells, targetPrinter,
                   reported, connectCalls, addCmdRuns, setDefaultCalls, messages,
                   probeCalls>>

\* full-subnet: one test and one iteration of
\* `for ip := ip.Mask(ipnet.Mask); ipnet.Contains(ip); incIP(ip) { ips = append(ips, ip.String()) }`
RangeLoopFull ==
    /\ mainpc = "getNetworkRange"
    /\ rpc = "loop"
    /\ policy = "full"
    /\ IPNetContains(ipnet, loopIP) => Len(rangeIps) < RangeCap
    /\ IF IPNetContains(ipnet, loopIP)
       THEN /\ rangeIps' = Append(rangeIps, IPString(loopIP))
            /\ loopIP' = incIP(loopIP)
            /\ UNCHANGED rpc
       ELSE /\ rpc' = "return"
            /\ UNCHANGED <<rangeIps, loopIP>>
    /\ UNCHANGED <<policy, block, cidr, elided, ipnet, hostNum, rangeErr>>
    /\ UNCHANGED <<ifaceVars, loopVarPerIteration, ips, network, mainpc, next, wg, task,
                   printers, closes, panicked, closerpc, cells, targetPrinter,
                   reported, connectCalls, addCmdRuns, setDefaultCalls, messages,
                   probeCalls>>

\* the loop ended one host number early
LoopContinuesMut(n) == n < maxHost

\* bounded-range: the test `i <= maxHost`
LoopContinues(n) == n <= maxHost

\* bounded-range: one test and one iteration of
\* `for i := minHost; i <= maxHost; i++ { candidate := ...; if ipnet.Contains(candidate) { append } }`
RangeLoopBounded ==
    /\ mainpc = "getNetworkRange"
    /\ rpc = "loop"
    /\ policy = "bounded"
    /\ IF LoopContinues(hostNum)
       THEN /\ rangeIps' = IF IPNetContains(ipnet, candidate(loopIP, hostNum))
                           THEN Append(rangeIps, IPString(candidate(loopIP, hostNum)))
                           ELSE rangeIps
            /\ hostNum' = hostNum + 1
            /\ UNCHANGED rpc
       ELSE /\ rpc' = "return"
            /\ UNCHANGED <<rangeIps, hostNum>>
    /\ UNCHANGED <<policy, block, cidr, elided, ipnet, loopIP, rangeErr>>
    /\ UNCHANGED <<ifaceVars, loopVarPerIteration, ips, network, mainpc, next, wg, task,
                   printers, closes, panicked, closerpc, cells, targetPrinter,
                   reported, connectCalls, addCmdRuns, setDefaultCalls, messages,
                   probeCalls>>

\* bounded-range returning the slice as it is
BoundedRangeResultMut(found) == [ips |-> found, err |-> "nil"]

\* bounded-range: `if len(ips) == 0 { return nil, fmt.Errorf(...) }; return ips, nil`
BoundedRangeResult(found) ==
    IF Len(found) = 0 THEN [ips |-> <<>>, err |-> "EmptyRange"]
    ELSE [ips |-> found, err |-> "nil"]

\* the return of getNetworkRange after the loop
RangeReturn ==
    /\ mainpc = "getNetworkRange"
    /\ rpc = "return"
    /\ \E r \in {IF policy = "full"
                 THEN [ips |-> IF elided THEN LateRangeResult(rangeIps)
                               ELSE FullRangeResult(rangeIps),
                       err |-> "nil"]
                 ELSE BoundedRangeResult(rangeIps)} :
          /\ rangeIps' = r.ips
          /\ rangeErr' = r.err
    /\ rpc' = "returned"
    /\ UNCHANGED <<policy, block, cidr, elided, ipnet, loopIP, hostNum>>
    /\ UNCHANGED <<ifaceVars, loopVarPerIteration, ips, network, mainpc, next, wg, task,
                   printers, closes, panicked, closerpc, cells, targetPrinter,
                   reported, connectCalls, addCmdRuns, setDefaultCalls, messages,
                   probeCalls>>

\* main after getNetworkRange: `if err != nil { ...; return }`
AfterRange(err) == IF err # "nil" THEN "done" ELSE "launch"

\* `ips, err := getNetworkRange(...); if err != nil { fmt.Println(...); return }`,
\* then `var wg sync.WaitGroup; printers := make(chan Printer, len(ips))`
MainRange ==
    /\ mainpc = "getNetworkRange"
    /\ rpc = "returned"
    /\ mainpc' = AfterRange(rangeErr)
    /\ messages' = IF rangeErr # "nil" THEN Append(messages, <<"RangeFailed", rangeErr>>)
                   ELSE messages
    /\ ips' = rangeIps
    /\ task' = [k \in 1..Len(rangeIps) |-> IdleTask]
    /\ network' = [k \in 1..Len(rangeIps) |-> Answer(FALSE, FALSE, <<>>)]
    /\ UNCHANGED <<startupVars, loopVarPerIteration, next, wg, printers, closes,
                   panicked, closerpc, cells, targetPrinter, reported,
                   connectCalls, addCmdRuns, setDefaultCalls, probeCalls>>

\* main from the call of getNetworkRange to the end of the launch loop
NextRange ==
    \/ RangeParse
    \/ RangeLoopFull
    \/ RangeLoopBounded
    \/ RangeReturn
    \/ MainRange
    \/ Launch
    \/ StartCloser

SpecRange == InitRange /\ [][NextRange]_vars

-----------------------------------------------------------------------------
(* scanNetwork *)

\* the text "192.168.0." of main's test and of scanNetwork's candidates
ScanPrefix == <<"1", "9", "2", ".", "1", "6", "8", ".", "0", ".">>

\* what the operator types at the question of main
ScanResponses == {<<"y">>, <<"Y">>, <<"n">>}

\* main before scanNetwork:
\* `if !strings.HasPrefix(selectedInterface.CIDR, "192.168.0.") { ...; fmt.Scan(&response);
\*  if strings.ToLower(response) != "y" { return } }`
ScanProceeds(c, response) == HasPrefix(c, ScanPrefix) \/ ToLower(response) = <<"y">>

\* scanNetwork: fmt.Sprintf("192.168.0.%d", i)
scanCandidate(n) == ScanPrefix \o Itoa(n)

\* main from the test of the selected block to the call scanNetwork(selectedInterface.CIDR)
ConfirmScan ==
    /\ mainpc = "getNetworkRange"
    /\ rpc = "parse"
    /\ policy = "scan"
    /\ \E response \in ScanResponses :
          IF ScanProceeds(cidr, response)
          THEN /\ rpc' = "loop"
               /\ hostNum' = 100
               /\ UNCHANGED <<mainpc, messages>>
          ELSE /\ mainpc' = "done"
               /\ messages' = Append(messages, <<"Exit">>)
               /\ UNCHANGED <<rpc, hostNum>>
    /\ UNCHANGED <<policy, block, cidr, elided, ipnet, loopIP, rangeIps, rangeErr>>
    /\ UNCHANGED <<ifaceVars, loopVarPerIteration, ips, network, next, wg, task,
                   printers, closes, panicked, closerpc, cells, targetPrinter,
                   reported, connectCalls, addCmdRuns, setDefaultCalls, probeCalls>>

\* scanNetwork: one test and one iteration of
\* `for i := 100; i <= 110; i++ { ips = append(ips, fmt.Sprintf("192.168.0.%d", i)) }`,
\* then `return ips, nil`; cidr is not read
RangeLoopScan ==
    /\ mainpc = "getNetworkRange"
    /\ rpc = "loop"
    /\ policy = "scan"
    /\ IF hostNum <= 110
       THEN /\ rangeIps' = Append(rangeIps, scanCandidate(hostNum))
            /\ hostNum' = hostNum + 1
            /\ UNCHANGED <<rpc, rangeErr>>
       ELSE /\ rpc' = "returned"
            /\ rangeErr' = "nil"
            /\ UNCHANGED <<rangeIps, hostNum>>
    /\ UNCHANGED <<policy, block, cidr, elided, ipnet, loopIP>>
    /\ UNCHANGED <<ifaceVars, loopVarPerIteration, ips, network, mainpc, next, wg, task,
                   printers, closes, panicked, closerpc, cells, targetPrinter,
                   reported, connectCalls, addCmdRuns, setDefaultCalls, messages,
                   probeCalls>>

\* the Range Deriver of the build is called with the text of the block of the
\* selected interface
InitDeriver ==
    /\ IfacesIdle
    /\ \E p \in {"full", "bounded", "scan"} :
          \E b \in TestBlocks : StartRange(p, b, CIDRString(b.addr, b.bits))

\* main from the call of the Range Deriver to the end of the launch loop
NextDeriver ==
    \/ RangeParse
    \/ RangeLoopFull
    \/ RangeLoopBounded
    \/ RangeReturn
    \/ ConfirmScan
    \/ RangeLoopScan
    \/ MainRange
    \/ Launch
    \/ StartCloser

SpecDeriver == InitDeriver /\ [][NextDeriver]_vars

-----------------------------------------------------------------------------
(* The full-subnet getNetworkRange for every prefix length *)

\* the model follows the loop of a block it does not enumerate whole from
\* this many iterations before the last address of the block
MaxTail == 3

\* the blocks of every prefix length: one that ends at 255.255.255.255, one
\* in the middle of the address space, one of a private network
FullBlocks ==
    {[ok |-> TRUE, addr |-> a, bits |-> b] :
        a \in {<<255, 255, 255, 254>>, <<10, 1, 2, 3>>, <<192, 168, 1, 200>>}, b \in 0..32}

\* the block is enumerated from the first iteration of the loop
EnumeratedWhole(b) == b.bits >= 32 - MaxHostBits

\* the last address of the network n: the host bits all set
LastAddr(n) == [k \in 1..4 |-> n.IP[k] + (255 - n.Mask[k])]

\* the loop `for ip := ip.Mask(ipnet.Mask); ipnet.Contains(ip); incIP(ip)` of
\* the block b at the test of the iteration MaxTail before its last address
StartLate(b) ==
    /\ policy = "full"
    /\ block = b
    /\ cidr = CIDRString(b.addr, b.bits)
    /\ rpc = "loop"
    /\ ipnet = ParseCIDR(CIDRString(b.addr, b.bits)).ipnet
    /\ \E last \in {LastAddr(ParseCIDR(CIDRString(b.addr, b.bits)).ipnet)} :
          loopIP = <<last[1], last[2], last[3], last[4] - MaxTail>>
    /\ hostNum = minHost
    /\ rangeIps = <<>>
    /\ elided = TRUE
    /\ rangeErr = "nil"
    /\ MainAtRange

\* the full-subnet getNetworkRange is called with the text of a block of any
\* prefix length
InitFull ==
    /\ IfacesIdle
    /\ \E b \in FullBlocks :
          IF EnumeratedWhole(b)
          THEN StartRange("full", b, CIDRString(b.addr, b.bits))
          ELSE StartLate(b)

\* the full-subnet getNetworkRange from its call to its return
NextFull ==
    \/ RangeParse
    \/ RangeLoopFull
    \/ RangeReturn

SpecFull == InitFull /\ [][NextFull]_vars

-----------------------------------------------------------------------------
(* The specifications *)

Next ==
    \/ Launch
    \/ StartCloser
    \/ \E i \in 1..Len(ips) : Dial(i)
    \/ \E i \in 1..Len(ips) : Send(i)
    \/ \E i \in 1..Len(ips) : Finish(i)
    \/ CloserWait
    \/ CloserClose
    \/ Recv
    \/ RangeExit
    \/ CheckTarget
    \/ ConnectPrinter
    \/ SetDefaultPrinter
    \/ \E i \in 1..Len(ips) : GetShares(i)

Spec == Init /\ [][Next]_vars

SpecShares == InitShares /\ [][Next]_vars

\* the scheduler runs some goroutine that can take a step; every dial and
\* every listing returns
FairSpec == Spec /\ WF_vars(Next)

-----------------------------------------------------------------------------
(* Properties *)

Range(q) == {q[k] : k \in DOMAIN q}

\* main has left the range loop over the channel
LoopExited == mainpc \in {"check", "connect", "setDefault", "done"}

\* every candidate has a task and every task has returned
AllTasksDone == next > Len(ips) /\ \A i \in DOMAIN task : task[i].pc = "done"

\* the Printers sent so far: those received and those still in the buffer
SentSoFar == Range(reported) \cup Range(printers)

\* the share tables a candidate may answer with
Listings == {r.rows : r \in Responses \cup TestResponses}

\* the shares the scanner loop of getShares finds in each share table
ListedShares == [t \in Listings |-> ScanShares(NetView(t))]

\* the shares the listing of candidate i holds for getShares
SharesOf(i) == ListedShares[network[i].rows]

\* the shares candidate i contributes: none when the dial or the listing fails
YieldOf(i) ==
    IF network[i].reachable /\ network[i].cmdOk THEN SharesOf(i) ELSE <<>>

\* candidate i contributes nothing: the dial fails, the listing fails, or it has no share
YieldsNothing(i) == YieldOf(i) = <<>>

\* the number of Printers of candidate i sent so far
SentBy(i) ==
    LET all == reported \o printers
    IN  Cardinality({k \in DOMAIN all : all[k].IP = ips[i]})

\* getShares has returned in the task of candidate i
Returned(i) == task[i].pc \in {"send", "return", "done"} /\ task[i].err # "DialFailed"

\* C1: in every run in which the consumer receives Printers, the printer
\* passed to connectPrinter and to setDefaultPrinter is the first Printer the
\* consumer received from the channel.
C1_TargetIsFirstReceived ==
    /\ \A k \in DOMAIN connectCalls : connectCalls[k] = reported[1]
    /\ \A k \in DOMAIN setDefaultCalls : setDefaultCalls[k] = reported[1]

\* C2: the channel is closed only after every task has finished (the
\* WaitGroup counter, which counts the tasks started and not yet finished,
\* is back at zero), no task sends on the closed channel, and the channel is
\* closed exactly once per run.
C2_ClosedAfterAllTasks ==
    /\ ~panicked
    /\ closes <= 1
    /\ wg = Cardinality({i \in DOMAIN task : task[i].pc \notin {"idle", "done"}})
    /\ (closes > 0 \/ closerpc \in {"close", "done"}) => (wg = 0 /\ AllTasksDone)
    /\ LoopExited => closes = 1

C2_Witness ==
    /\ closes = 1
    /\ Len(ips) >= 2
    /\ \A i \in DOMAIN task : SentBy(i) >= 1

\* C3: if every dial and every listing returns, then under fair scheduling
\* the channel is eventually closed and the consumer loop exits, also when
\* the shares outnumber the capacity len(ips) of the channel.
C3_ScanTerminates == <>(closes > 0 /\ LoopExited)

C3_Witness ==
    /\ LoopExited
    /\ Len(reported) > Len(ips)

\* C4: when no candidate yields a Printer (each fails the dial, fails the
\* listing or has no qualifying share), no task sends, main never invokes
\* connectPrinter or setDefaultPrinter, and the finished run has reported
\* NoPrintersFound and nothing else.
C4_NoPrintersFound ==
    /\ (\A i \in DOMAIN network : YieldsNothing(i)) =>
          /\ printers = <<>> /\ reported = <<>>
          /\ connectCalls = <<>> /\ addCmdRuns = <<>> /\ setDefaultCalls = <<>>
          /\ mainpc \notin {"connect", "setDefault"}
          /\ mainpc = "done" => (AllTasksDone /\ messages = << <<"NoPrintersFound">> >>)
    /\ (LoopExited /\ reported = <<>>) =>
          /\ connectCalls = <<>> /\ addCmdRuns = <<>> /\ setDefaultCalls = <<>>
          /\ mainpc = "done" => messages = << <<"NoPrintersFound">> >>

C4_Witness ==
    /\ mainpc = "done"
    /\ messages = << <<"NoPrintersFound">> >>
    /\ \E i \in DOMAIN network : ~network[i].reachable
    /\ \E i \in DOMAIN network : network[i].reachable /\ network[i].cmdOk

\* what C5 asserts of every state: a failing candidate sends nothing and
\* nothing panics; once the loop is over every Printer of every other
\* candidate has been received; with a candidate that yields a share main
\* goes on with a target
C5_Absorbed ==
    /\ ~panicked
    /\ \A i \in DOMAIN network : \A yield \in {YieldOf(i)} :
          /\ yield = <<>> => (SentBy(i) = 0 /\ task[i].pc # "send")
          /\ LoopExited =>
                \A s \in Range(yield) : MkPrinter(ips[i], s) \in Range(reported)
          /\ (yield # <<>> /\ mainpc \in {"connect", "setDefault", "done"}) =>
                (targetPrinter # 0 /\ messages[1][1] = "Selected")

\* C5: a failure on any subset of the candidates never aborts the scan: the
\* failing task sends nothing and finishes, every Printer of the other
\* candidates is received, and the run reaches the selection of a target
\* whenever a candidate yields a qualifying share.
C5_SoftFailuresAbsorbed ==
    /\ []C5_Absorbed
    /\ <>(/\ \A i \in DOMAIN task : task[i].pc = "done"
          /\ \/ mainpc \in {"connect", "setDefault", "done"} /\ targetPrinter # 0
             \/ \A i \in DOMAIN network : YieldsNothing(i))

C5_Witness ==
    /\ mainpc = "connect"
    /\ \E i \in DOMAIN network : task[i].err # "nil" /\ task[i].pc = "done"
    /\ \E i \in DOMAIN network : ~YieldsNothing(i)

\* the {host, share} pairs of a set of Printers
Pairs(S) == {<<p.IP, p.ShareName>> : p \in S}

\* the pairs (h, s) with h reachable and s a share the listing of h yields
ExpectedPairs ==
    UNION { {<<ips[i], s>> : s \in Range(YieldOf(i))} : i \in DOMAIN network }

\* C6: for a fixed network the set of {host, share} pairs received when the
\* channel is closed and drained is exactly the set of the pairs (h, s) with
\* h reachable and s a share of the listing of h, in every interleaving:
\* none is invented, and none is lost.
C6_SamePairsEveryRun ==
    \A expected \in {ExpectedPairs} :
        /\ Pairs(SentSoFar) \subseteq expected
        /\ closes > 0 => Pairs(SentSoFar) = expected
        /\ LoopExited => Pairs(Range(reported)) = expected

C6_Witness ==
    /\ LoopExited
    /\ Cardinality(ExpectedPairs) >= 3
    /\ reported[1].IP = ips[2]

\* a row with a share name in the leading column and the marker in the type
\* column, the name not empty and not the administrative share
PrinterRow(row) ==
    row.type = TypePrint /\ row.name # <<>> /\ ToLower(row.name) # IpcToken

\* C7: for every listing line made of a share name in the leading column and
\* the marker in the type column, the name not empty and not ipc$, getShares
\* yields that whole share name, and for a listing of that one row nothing else.
C7_YieldsLeadingColumnName ==
    \A i \in DOMAIN task :
        (Returned(i) /\ network[i].cmdOk) =>
            LET rows == network[i].rows
            IN  /\ \A k \in DOMAIN rows :
                       PrinterRow(rows[k]) => rows[k].name \in Range(task[i].shareNames)
                /\ (Len(rows) = 1 /\ PrinterRow(rows[1])) =>
                       task[i].shareNames = <<rows[1].name>>

\* the share name is empty or is case-insensitively ipc$
AdminOrEmpty(name) == name = <<>> \/ ToLower(name) = IpcToken

\* IPC$, in any case, stands in the line before its first marker
IpcBeforeMarker(line) ==
    /\ Contains(line, Marker)
    /\ Contains(ToLower(SubSeq(line, 1, Index(line, Marker))), IpcToken)

NoIpcBeforeMarker(line) == ~IpcBeforeMarker(line)

\* C8: no Printer sent on the channel, buffered in it, received, or selected
\* as target has a share name that is empty or case-insensitively ipc$, and a
\* listing line with IPC$ before the marker contributes no entry.
C8_NoAdminShare ==
    /\ \A p \in SentSoFar \cup Range(cells) \cup Range(connectCalls) \cup Range(setDefaultCalls) :
           ~AdminOrEmpty(p.ShareName) /\ ~AdminOrEmpty(p.Name)
    /\ \A i \in DOMAIN task :
           /\ \A s \in Range(task[i].shareNames) : ~AdminOrEmpty(s)
           /\ (Returned(i) /\ network[i].cmdOk) =>
                 /\ task[i].shareNames =
                       ScanShares(SelectSeq(NetView(network[i].rows), NoIpcBeforeMarker))
                 /\ \A k \in DOMAIN network[i].rows :
                       IpcBeforeMarker(Render(network[i].rows[k])) =>
                           \A s \in Range(task[i].shareNames) :
                               ~Contains(ToLower(s), IpcToken)

C8_Witness ==
    /\ connectCalls # <<>>
    /\ \E k \in DOMAIN network[1].rows :
           network[1].rows[k].name = NameIPC /\ network[1].rows[k].type = TypePrint

\* the name the claim reads in a line: what precedes the marker, trimmed
NameBeforeMarker(line) == TrimSpace(SubSeq(line, 1, Index(line, Marker)))

RECURSIVE SharesAsClaimed(_)
\* the entries of C9: one per line that holds the marker, unless its name is
\* empty or case-insensitively equals ipc$
SharesAsClaimed(lines) ==
    IF lines = <<>> THEN <<>>
    ELSE (IF Contains(Head(lines), Marker) /\ ~AdminOrEmpty(NameBeforeMarker(Head(lines)))
          THEN <<NameBeforeMarker(Head(lines))>> ELSE <<>>)
         \o SharesAsClaimed(Tail(lines))

\* C9: getShares drops the share of a line holding the marker only when the
\* trimmed name before the marker is empty or case-insensitively equals
\* ipc$; every other such line contributes one entry, in the order of the lines.
C9_DropsOnlyEmptyOrIpc ==
    \A i \in DOMAIN task :
        (Returned(i) /\ network[i].cmdOk) =>
            task[i].shareNames = SharesAsClaimed(NetView(network[i].rows))

\* C10: getShares returns an error exactly when the listing command fails or
\* no line of its output qualifies; it returns shares if and only if it
\* returns no error; and a task that has finished has sent a Printer if and
\* only if its getShares succeeded.
C10_ErrorIffNoShares ==
    \A i \in DOMAIN task :
        /\ Returned(i) =>
              /\ (task[i].err # "nil") <=>
                     (~network[i].cmdOk
                        \/ \A k \in DOMAIN NetView(network[i].rows) :
                               ParseLine(NetView(network[i].rows)[k]) = <<>>)
              /\ (task[i].err = "nil") <=> (task[i].shareNames # <<>>)
        /\ ~Returned(i) => SentBy(i) = 0
        /\ task[i].pc = "done" =>
              ((SentBy(i) >= 1) <=> (Returned(i) /\ task[i].err = "nil"))

C10_Witness ==
    /\ task[1].pc = "done"
    /\ task[1].err = "NoSharesFound"
    /\ network[1].cmdOk
    /\ \E k \in DOMAIN network[1].rows : network[1].rows[k].type = TypePrint

-----------------------------------------------------------------------------
(* Printer records on the channel and at the collaborators *)

\* p is well formed: its path is "\\" + IP + "\" + ShareName, its IP is a
\* candidate of this run and its ShareName a name getShares returned for it
WellFormedPrinter(p) ==
    /\ p.FullPath = <<"\\", "\\">> \o p.IP \o <<"\\">> \o p.ShareName
    /\ \E i \in DOMAIN ips :
          /\ ips[i] = p.IP
          /\ task[i].err = "nil"
          /\ p.ShareName \in Range(task[i].shareNames)

\* C11: every Printer sent on the result channel has FullPath = "\\" + IP +
\* "\" + ShareName, an IP among the candidates of the run and a ShareName
\* among the names getShares returned for that IP; the same holds for the
\* target handed to connectPrinter and to setDefaultPrinter.
C11_PrintersWellFormed ==
    /\ \A p \in SentSoFar : WellFormedPrinter(p)
    /\ \A k \in DOMAIN cells : WellFormedPrinter(cells[k])
    /\ \A k \in DOMAIN connectCalls : WellFormedPrinter(connectCalls[k])
    /\ \A k \in DOMAIN setDefaultCalls : WellFormedPrinter(setDefaultCalls[k])

C11_Witness ==
    /\ setDefaultCalls # <<>>
    /\ connectCalls # <<>>
    /\ Len(reported) >= 3
    /\ \E k \in DOMAIN reported : reported[k].IP # setDefaultCalls[1].IP

-----------------------------------------------------------------------------
(* The Range Deriver *)

\* the number written by the last three octets of an address
Num24(a) == (a[2] * 256 + a[3]) * 256 + a[4]

\* the number of addresses of a block
BlockSize(b) == Pow2(32 - b.bits)

\* the network address and the broadcast address of a block of prefix length
\* 8 or more: the first and the last of its addresses
NetworkAddr(b) ==
    LET n == Num24(b.addr) - (Num24(b.addr) % BlockSize(b))
    IN  <<b.addr[1], n \div 65536, (n \div 256) % 256, n % 256>>

BroadcastAddr(b) ==
    LET n == Num24(NetworkAddr(b)) + BlockSize(b) - 1
    IN  <<b.addr[1], n \div 65536, (n \div 256) % 256, n % 256>>

\* the address a lies in the block b
InBlock(b, a) ==
    /\ a[1] = b.addr[1]
    /\ Num24(NetworkAddr(b)) <= Num24(a)
    /\ Num24(a) <= Num24(BroadcastAddr(b))

\* the dotted-decimal texts of a sequence of addresses
Texts(q) == [k \in DOMAIN q |-> IPString(q[k])]

\* the addresses <first three octets of the network address>.n for n from 100
\* to 110 that lie in the block, in ascending order of n
BoundedExpected(b) ==
    LET base == NetworkAddr(b)
        all  == [k \in 1..11 |-> <<base[1], base[2], base[3], 99 + k>>]
    IN  SelectSeq(all, LAMBDA a : InBlock(b, a))

\* getNetworkRange has returned for a well-formed block
RangeDone == rpc = "returned" /\ block.ok

NoNetworkOrBroadcast ==
    \A k \in DOMAIN rangeIps :
        /\ rangeIps[k] # IPString(NetworkAddr(block))
        /\ rangeIps[k] # IPString(BroadcastAddr(block))

\* C13: no candidate returned by the Range Deriver is the network address or
\* the broadcast address of the block, for every IPv4 block of prefix length
\* at most 30, under the bounded-range and under the full-subnet getNetworkRange.
C13_NoNetworkOrBroadcast ==
    (RangeDone /\ block.bits <= 30) => NoNetworkOrBroadcast

\* no probe task has been launched and no collaborator invoked
NothingLaunched ==
    /\ next = 1
    /\ wg = 0
    /\ \A k \in DOMAIN task : task[k].pc = "idle"
    /\ closerpc = "idle"
    /\ connectCalls = <<>>
    /\ addCmdRuns = <<>>
    /\ setDefaultCalls = <<>>

\* C14: the Range Deriver returns an error exactly when the block is
\* malformed (InvalidAddressBlock) or, under the bounded-range policy, when
\* no candidate survives the containment test (EmptyRange); it never returns
\* an empty list without an error; in main either error ends the run before
\* a probe task is launched and before a collaborator is invoked.
C14_RangeErrors ==
    /\ rpc = "returned" =>
          /\ rangeErr \in {"nil", "InvalidAddressBlock", "EmptyRange"}
          /\ (rangeErr = "InvalidAddressBlock") <=> ~block.ok
          /\ (rangeErr = "EmptyRange") <=>
                 (block.ok /\ policy = "bounded" /\ BoundedExpected(block) = <<>>)
          /\ (rangeErr = "nil") <=> (rangeIps # <<>>)
    /\ (rpc = "returned" /\ rangeErr # "nil") =>
          /\ mainpc \in {"getNetworkRange", "done"}
          /\ NothingLaunched
          /\ mainpc = "done" => messages = << <<"RangeFailed", rangeErr>> >>
    /\ mainpc \in {"launch", "range"} => (rangeErr = "nil" /\ ips = rangeIps /\ ips # <<>>)

C14_Witness ==
    /\ mainpc = "done"
    /\ rangeErr = "EmptyRange"
    /\ block.ok
    /\ messages # <<>>

-----------------------------------------------------------------------------
(* The capacity of the channel *)

\* a task is about to send a Printer
AboutToSend == \E i \in DOMAIN task : task[i].pc = "send"

\* the number of shares all candidates yield
RECURSIVE TotalFrom(_)
TotalFrom(k) == IF k > Len(network) THEN 0 ELSE Len(YieldOf(k)) + TotalFrom(k + 1)

TotalShares == TotalFrom(1)

\* C15 as stated: because the channel is buffered to len(ips), no producer
\* ever has to wait on a send: whenever a task is about to send a Printer the
\* channel holds fewer than len(ips) items, for any number of shares per host.
C15_NoProducerWaits ==
    AboutToSend => Len(printers) < Len(ips)

\* C15 amended: the channel never holds more than len(ips) items, and a task
\* about to send finds fewer than len(ips) items in it whenever the shares of
\* all hosts together number at most len(ips).
C15_NoWaitUpToCapacity ==
    /\ Len(printers) <= Len(ips)
    /\ (AboutToSend /\ TotalShares <= Len(ips)) => Len(printers) < Len(ips)

C15_Witness ==
    /\ AboutToSend
    /\ TotalShares = Len(ips)
    /\ Len(printers) = Len(ips) - 1
    /\ Len(ips) >= 2
    /\ \E i \in DOMAIN network : Len(YieldOf(i)) = 2

-----------------------------------------------------------------------------
(* The Address Enumerator *)

\* the address a of the interface f counts: f is up, is no loopback device and
\* reports its addresses, a is an IPv4 address with its network, outside 169.254.0.0/16
Qualifies(f, a) ==
    /\ f.up /\ ~f.loopback /\ f.addrsOk
    /\ a.isIPNet /\ a.v4
    /\ ~(a.addr[1] = 169 /\ a.addr[2] = 254)

\* one entry per qualifying address of the interface f
QualifyingOf(f) ==
    LET good == SelectSeq(f.addrs, LAMBDA a : Qualifies(f, a))
    IN  [k \in DOMAIN good |->
            [Name |-> f.Name, IP |-> IPString(good[k].addr),
             CIDR |-> IPString(good[k].addr) \o <<"/">> \o Itoa(good[k].bits)]]

RECURSIVE QualifyingFrom(_)
\* one entry per qualifying address of the interfaces from the k-th on
QualifyingFrom(k) ==
    IF k > Len(hostInterfaces.list) THEN <<>>
    ELSE QualifyingOf(hostInterfaces.list[k]) \o QualifyingFrom(k + 1)

\* C16: getLocalInterfaces returns exactly one entry per IPv4 address of an
\* interface that is up and not loopback, outside 169.254.0.0/16 (one entry
\* for each qualifying address of an interface, none for an interface that is
\* down or loopback), and it returns NoInterfacesFound, with no entries,
\* exactly when there is no such address.
C16_OneEntryPerAddress ==
    ifpc = "returned" =>
        \A expected \in {QualifyingFrom(1)} :
            /\ ~hostInterfaces.err =>
                  /\ (ifErr = "NoInterfacesFound") <=> (expected = <<>>)
                  /\ (ifErr = "nil") <=> (expected # <<>>)
                  /\ result = expected
            /\ hostInterfaces.err => (ifErr = "InterfacesFailed" /\ result = <<>>)

C16_Witness ==
    /\ ifpc = "returned"
    /\ Len(result) = 3
    /\ result[1].Name = result[2].Name
    /\ result[1].IP # result[2].IP
    /\ \E k \in DOMAIN hostInterfaces.list : hostInterfaces.list[k].loopback
    /\ \E k \in DOMAIN hostInterfaces.list[1].addrs :
          hostInterfaces.list[1].addrs[k].addr = <<169, 254, 17, 3>>

-----------------------------------------------------------------------------
(* After the selection *)

\* main has written a line of the kind m
Wrote(m) == \E k \in DOMAIN messages : messages[k][1] = m

\* the last line main has written is of the kind m
WroteLast(m) == messages # <<>> /\ messages[Len(messages)][1] = m

\* C17: after a target is selected, setDefaultPrinter is invoked only if
\* connectPrinter returned success; a failure of connectPrinter or of
\* setDefaultPrinter ends the run with a message, with no retry, no attempt
\* on another discovered printer and no success message.
C17_FailureEndsRun ==
    /\ Len(connectCalls) <= 1
    /\ Len(addCmdRuns) <= 1
    /\ Len(setDefaultCalls) <= 1
    /\ setDefaultCalls # <<>> => (connectCalls # <<>> /\ ~Wrote("ConnectFailed"))
    /\ mainpc = "setDefault" => (connectCalls # <<>> /\ ~Wrote("ConnectFailed"))
    /\ Wrote("ConnectFailed") =>
          /\ mainpc = "done"
          /\ WroteLast("ConnectFailed")
          /\ setDefaultCalls = <<>>
          /\ addCmdRuns = <<connectCalls[1].FullPath>>
    /\ Wrote("SetDefaultFailed") =>
          /\ mainpc = "done"
          /\ WroteLast("SetDefaultFailed")
          /\ setDefaultCalls = connectCalls
    /\ (Wrote("ConnectFailed") \/ Wrote("SetDefaultFailed")) => ~Wrote("Success")
    /\ (mainpc = "done" /\ connectCalls # <<>>) =>
          (WroteLast("ConnectFailed") \/ WroteLast("SetDefaultFailed") \/ WroteLast("Success"))

C17_Witness ==
    /\ mainpc = "done"
    /\ WroteLast("ConnectFailed")
    /\ Len(reported) >= 2
    /\ \E k \in DOMAIN reported : reported[k] # connectCalls[1]

\* C18: when isPrinterConnected reports true for the FullPath of the target,
\* connectPrinter does not invoke the add-printer command and returns
\* success, and the run goes on to setDefaultPrinter; when it reports false,
\* the add-printer command is invoked exactly once.
C18_ConnectedSkipsAdd ==
    /\ Len(probeCalls) = Len(connectCalls)
    /\ \A k \in DOMAIN probeCalls :
          /\ probeCalls[k].path = connectCalls[k].FullPath
          /\ probeCalls[k].connected =>
                /\ addCmdRuns = <<>>
                /\ ~Wrote("ConnectFailed")
                /\ mainpc \in {"setDefault", "done"}
                /\ mainpc = "done" => Len(setDefaultCalls) = 1
          /\ ~probeCalls[k].connected => addCmdRuns = <<probeCalls[k].path>>

C18_Witness ==
    /\ probeCalls # <<>>
    /\ probeCalls[1].connected
    /\ addCmdRuns = <<>>
    /\ setDefaultCalls = connectCalls
    /\ mainpc = "done"

\* the number of Printers the tasks have sent
RECURSIVE SentFrom(_)
SentFrom(k) == IF k > Len(task) THEN 0 ELSE (task[k].k - 1) + SentFrom(k + 1)

\* C19: every Printer received from the result channel is reported exactly
\* once, and the installation and the default-setting collaborator are
\* invoked at most once each, only with the FullPath of the selected target
\* (the Printer received when the selection was made) and never with the
\* path of another discovered printer.
C19_OnlyTheTargetActedOn ==
    /\ Len(reported) + Len(printers) = SentFrom(1)
    /\ LoopExited => Len(reported) = TotalShares
    /\ Len(connectCalls) <= 1
    /\ Len(addCmdRuns) <= 1
    /\ Len(setDefaultCalls) <= 1
    /\ \A k \in DOMAIN connectCalls : connectCalls[k].FullPath = reported[1].FullPath
    /\ \A k \in DOMAIN addCmdRuns : addCmdRuns[k] = reported[1].FullPath
    /\ \A k \in DOMAIN setDefaultCalls : setDefaultCalls[k].FullPath = reported[1].FullPath

\* a collaborator has been invoked
ActedOn == connectCalls # <<>> \/ probeCalls # <<>> \/ addCmdRuns # <<>> \/ setDefaultCalls # <<>>

\* C20: there is no early action and no cancellation: connectPrinter and
\* setDefaultPrinter are invoked only after the result channel has been
\* closed, that is after every probe task, also one for a host that answers
\* after the target was received, has run to its completion.
C20_NoEarlyAction ==
    /\ (ActedOn \/ mainpc \in {"connect", "setDefault"}) =>
          /\ closes = 1
          /\ closerpc = "done"
          /\ AllTasksDone
          /\ wg = 0
          /\ printers = <<>>
    /\ \A i \in DOMAIN task :
          (targetPrinter # 0 /\ task[i].pc \notin {"idle", "done"}) =>
              (mainpc = "range" /\ closes = 0)

C20_Witness ==
    /\ setDefaultCalls # <<>>
    /\ Len(ips) >= 2
    /\ reported[1].IP = ips[1]
    /\ reported[Len(reported)].IP = ips[2]

-----------------------------------------------------------------------------
(* The fan-out *)

\* the tasks started and not yet finished
InFlight == {k \in DOMAIN task : task[k].pc \notin {"idle", "done"}}

\* main is past the launch loop
LaunchOver == mainpc \in {"range", "check", "connect", "setDefault"} \/ reported # <<>>

\* C21: main launches exactly one probe task per candidate address: each
\* candidate is probed exactly once, each task probes its own candidate, all
\* tasks are started before the consumer begins draining; under the
\* bounded-range policy at most 11 tasks are in flight, for any block.
C21_OneTaskPerCandidate ==
    /\ Len(task) = Len(ips)
    /\ Cardinality(Range(ips)) = Len(ips)
    /\ \A k \in DOMAIN task :
          /\ (k < next) <=> (task[k].pc # "idle")
          /\ task[k].pc # "idle" => task[k].ip = ips[k]
          /\ task[k].dials = IF task[k].pc \in {"idle", "dial"} THEN 0 ELSE 1
    /\ LaunchOver => next = Len(ips) + 1
    /\ \A inFlight \in {Cardinality(InFlight)} :
          /\ wg = inFlight
          /\ policy = "bounded" => (Len(ips) <= 11 /\ inFlight <= 11)

C21_Witness ==
    /\ policy = "bounded"
    /\ mainpc = "range"
    /\ Cardinality(InFlight) = 11
    /\ task[11].ip = IPString(<<192, 168, 0, 110>>)

-----------------------------------------------------------------------------
(* The probe before the listing *)

\* C22: within each task getShares is invoked for a host only after the
\* connection to port 445 of that host succeeded and has been released; it
\* is never invoked for a host whose connection attempt failed.
C22_ListingAfterProbe ==
    \A i \in DOMAIN task :
        /\ Len(task[i].listed) <= 1
        /\ \A k \in DOMAIN task[i].listed :
              /\ task[i].listed[k].ip = ips[i]
              /\ task[i].listed[k].conn = "closed"
              /\ task[i].dialed = ips[i] \o <<":", "4", "4", "5">>
              /\ network[i].reachable
        /\ task[i].pc = "getShares" => (task[i].conn = "closed" /\ network[i].reachable)
        /\ (task[i].dials > 0 /\ ~network[i].reachable) =>
              (task[i].listed = <<>> /\ task[i].conn = "none"
                 /\ task[i].pc \in {"return", "done"} /\ task[i].shareNames = <<>>)

C22_Witness ==
    /\ Len(task) >= 2
    /\ \A i \in DOMAIN task : task[i].pc = "done"
    /\ \E i \in DOMAIN task : Len(task[i].listed) = 1 /\ task[i].err = "nil"
    /\ \E i \in DOMAIN task : task[i].listed = <<>> /\ task[i].err = "DialFailed"

-----------------------------------------------------------------------------
(* The candidates and the block *)

\* the address a dotted-decimal text stands for
AddrOf(t) == ParseCIDR(t \o <<"/", "3", "2">>).ip

\* C23: in every variant of the Range Deriver (bounded-range getNetworkRange,
\* full-subnet getNetworkRange, scanNetwork) every candidate address handed
\* to a probe task lies inside the address block of the selected interface
\* that was passed in.
C23_CandidatesInBlock ==
    \A k \in DOMAIN task :
        task[k].pc # "idle" =>
            /\ task[k].ip = ips[k]
            /\ InBlock(block, AddrOf(task[k].ip))

-----------------------------------------------------------------------------
(* The full-subnet enumeration *)

\* the number of host bits of the block b in its octet k
HostBitsIn(b, k) ==
    IF 8 * k - b.bits < 0 THEN 0 ELSE IF 8 * k - b.bits > 8 THEN 8 ELSE 8 * k - b.bits

\* the first (network) and the last (broadcast) address of a block of any
\* prefix length
FirstOf(b) == [k \in 1..4 |-> b.addr[k] - (b.addr[k] % Pow2(HostBitsIn(b, k)))]

LastOf(b) == [k \in 1..4 |-> FirstOf(b)[k] + Pow2(HostBitsIn(b, k)) - 1]

\* the address b is the number of the address a plus one
Follows(a, b) ==
    IF Num24(a) = 16777215
    THEN b[1] = a[1] + 1 /\ Num24(b) = 0
    ELSE b[1] = a[1] /\ Num24(b) = Num24(a) + 1

\* C24: under the full-subnet policy getNetworkRange returns, for every IPv4
\* block of more than two addresses, every address of the block except the
\* network and the broadcast address, in ascending numeric order and without
\* duplicates (2^(32-p) - 2 addresses for the prefix length p), incIP carrying
\* from a 255 octet into the next higher one; for a block of one or two
\* addresses it returns all of them.  The slice is built in that order from
\* the network address on, each element the number of the one before plus one.
C24_FullSubnet ==
    (policy = "full" /\ block.ok) =>
        /\ rpc \in {"loop", "return"} =>
              /\ Len(rangeIps) >= 2 =>
                    Follows(AddrOf(rangeIps[Len(rangeIps) - 1]), AddrOf(rangeIps[Len(rangeIps)]))
              /\ (Len(rangeIps) >= 1 /\ ~elided) => rangeIps[1] = IPString(FirstOf(block))
        /\ rpc = "returned" =>
              /\ rangeErr = "nil"
              /\ block.bits <= 30 =>
                    /\ rangeIps # <<>>
                    /\ Follows(AddrOf(rangeIps[Len(rangeIps)]), LastOf(block))
                    /\ \A k \in 1..(Len(rangeIps) - 1) :
                          Follows(AddrOf(rangeIps[k]), AddrOf(rangeIps[k + 1]))
                    /\ ~elided =>
                          /\ Follows(FirstOf(block), AddrOf(rangeIps[1]))
                          /\ Len(rangeIps) = Pow2(32 - block.bits) - 2
              /\ block.bits = 31 =>
                    rangeIps = <<IPString(FirstOf(block)), IPString(LastOf(block))>>
              /\ block.bits = 32 => rangeIps = <<IPString(block.addr)>>

\* C25: under the full-subnet policy the enumeration loop of getNetworkRange
\* terminates for every well-formed IPv4 block of prefix length 0 to 32, also
\* for a block that ends at 255.255.255.255, where incIP wraps to 0.0.0.0:
\* once the last address of the block is appended the loop test fails, and
\* the loop variable is never back at the first address of the block with
\* the test true (the test reads ipnet and ip only, so from there the loop
\* would repeat its run without end).
C25_LoopTerminates ==
    (policy = "full" /\ rpc = "loop" /\ rangeIps # <<>>) =>
        /\ rangeIps[Len(rangeIps)] = IPString(LastOf(block)) => ~IPNetContains(ipnet, loopIP)
        /\ ~(loopIP = ipnet.IP /\ IPNetContains(ipnet, loopIP))

====
